---- MODULE Spec2Model ----
(***************************************************************************)
(* A model of scrape_prices.py: the Checkers search scraper.               *)
(*                                                                         *)
(* Texts are TLA+ strings read character by character.  An optional value  *)
(* (Python's None or a value) is a sequence of length 0 or 1.  A float is  *)
(* an exact fraction <<numerator, denominator>> in lowest terms with a     *)
(* positive denominator; binary rounding of floats is not modelled.        *)
(***************************************************************************)
EXTENDS Integers, Sequences, FiniteSets, TLC

None == <<>>
Some(x) == <<x>>

(* ------------------------------ characters ----------------------------- *)

Char(s, i) == SubSeq(s, i, i)

DIGITS == "0123456789"
LOWERS == "abcdefghijklmnopqrstuvwxyz"
UPPERS == "ABCDEFGHIJKLMNOPQRSTUVWXYZ"

\* The position of character c in the string s, 0 when it is not there.
RECURSIVE IndexIn(_, _, _)
IndexIn(c, s, i) ==
  IF i > Len(s) THEN 0
  ELSE IF Char(s, i) = c THEN i ELSE IndexIn(c, s, i + 1)

IsDigit(c) == IndexIn(c, DIGITS, 1) > 0
DigitVal(c) == IndexIn(c, DIGITS, 1) - 1
\* \s of the re module, over the characters the inputs use.
IsSpace(c) == c = " "
\* \w of the re module: letters, digits and the underscore.
IsWord(c) ==
  \/ IsDigit(c)
  \/ IndexIn(c, LOWERS, 1) > 0
  \/ IndexIn(c, UPPERS, 1) > 0
  \/ c = "_"

\* str.lower() on one character.
LowerChar(c) ==
  LET k == IndexIn(c, UPPERS, 1) IN IF k > 0 THEN Char(LOWERS, k) ELSE c

lower[s \in STRING] ==
  IF Len(s) = 0 THEN "" ELSE LowerChar(Char(s, 1)) \o lower[SubSeq(s, 2, Len(s))]

\* str.replace(a, b) for a single character a and a string b of length 0 or 1.
RECURSIVE replace(_, _, _)
replace(s, a, b) ==
  IF Len(s) = 0 THEN ""
  ELSE (IF Char(s, 1) = a THEN b ELSE Char(s, 1)) \o replace(SubSeq(s, 2, Len(s)), a, b)

RECURSIVE lstrip(_)
lstrip(s) ==
  IF Len(s) > 0 /\ IsSpace(Char(s, 1)) THEN lstrip(SubSeq(s, 2, Len(s))) ELSE s

RECURSIVE rstrip(_)
rstrip(s) ==
  IF Len(s) > 0 /\ IsSpace(Char(s, Len(s))) THEN rstrip(SubSeq(s, 1, Len(s) - 1)) ELSE s

\* str.strip(), and get_text(strip=True) of a node holding one text.
strip(s) == lstrip(rstrip(s))

\* str.lstrip("Rr")
RECURSIVE lstripR(_)
lstripR(s) ==
  IF Len(s) > 0 /\ Char(s, 1) \in {"R", "r"} THEN lstripR(SubSeq(s, 2, Len(s))) ELSE s

\* re.sub(r"\s+", " ", s): every run of whitespace becomes one space.
RECURSIVE collapse(_)
collapse(s) ==
  IF Len(s) = 0 THEN ""
  ELSE IF IsSpace(Char(s, 1))
       THEN " " \o collapse(lstrip(s))
       ELSE Char(s, 1) \o collapse(SubSeq(s, 2, Len(s)))

normalize(s) == strip(collapse(s))

\* The pieces of s between runs of separator characters, empty pieces dropped:
\* [t for t in re.split(...) if t] and str.split().
\* Whether c separates pieces: any non-word character for re.split(r"[^\w]+"),
\* whitespace for str.split().
IsSep(c, byWord) == IF byWord THEN ~IsWord(c) ELSE IsSpace(c)

SplitOn[s \in STRING, cur \in STRING, byWord \in BOOLEAN] ==
  IF Len(s) = 0 THEN (IF cur = "" THEN <<>> ELSE <<cur>>)
  ELSE IF IsSep(Char(s, 1), byWord)
       THEN (IF cur = "" THEN <<>> ELSE <<cur>>) \o SplitOn[SubSeq(s, 2, Len(s)), "", byWord]
       ELSE SplitOn[SubSeq(s, 2, Len(s)), cur \o Char(s, 1), byWord]

tokens(s) == SplitOn[lower[s], "", TRUE]
split(s) == SplitOn[s, "", FALSE]

Range(f) == {f[i] : i \in DOMAIN f}

(* ------------------------------- floats -------------------------------- *)

RECURSIVE Gcd(_, _)
Gcd(a, b) == IF b = 0 THEN a ELSE Gcd(b, a % b)
Abs(a) == IF a < 0 THEN -a ELSE a

Rat(n, d) == LET g == Gcd(Abs(n), d) IN <<n \div g, d \div g>>
RatLt(a, b) == a[1] * b[2] < b[1] * a[2]
RatLe(a, b) == a[1] * b[2] <= b[1] * a[2]
RatMul(a, b) ==
  LET g1 == Gcd(Abs(a[1]), b[2])
      g2 == Gcd(Abs(b[1]), a[2])
  IN  Rat((a[1] \div g1) * (b[1] \div g2), (a[2] \div g2) * (b[2] \div g1))
RatNeg(a) == <<-a[1], a[2]>>
RatMax(a, b) == IF RatLt(a, b) THEN b ELSE a
\* The quotient Python refuses to compute (ZeroDivisionError): no value.
ZeroDivision == <<0, 0>>
RatDiv(a, b) == IF b[1] = 0 THEN ZeroDivision ELSE RatMul(a, <<b[2], b[1]>>)
IsFloat(r) == r \in Int \X Int /\ r[2] > 0

RECURSIVE Pow10(_)
Pow10(k) == IF k = 0 THEN 1 ELSE 10 * Pow10(k - 1)

RECURSIVE IntVal(_)
IntVal(ds) ==
  IF Len(ds) = 0 THEN 0
  ELSE 10 * IntVal(SubSeq(ds, 1, Len(ds) - 1)) + DigitVal(Char(ds, Len(ds)))

\* float("<ip>.<fp>") for digit strings ip and fp (fp may be empty).
FloatOf(ip, fp) == Rat(IntVal(ip \o fp), Pow10(Len(fp)))

RECURSIVE StripLeadingZeros(_)
StripLeadingZeros(ds) ==
  IF Len(ds) > 1 /\ Char(ds, 1) = "0" THEN StripLeadingZeros(SubSeq(ds, 2, Len(ds))) ELSE ds

RECURSIVE StripTrailingZeros(_)
StripTrailingZeros(ds) ==
  IF Len(ds) > 0 /\ Char(ds, Len(ds)) = "0"
  THEN StripTrailingZeros(SubSeq(ds, 1, Len(ds) - 1)) ELSE ds

\* str(float("<ip>.<fp>")) in the range where Python prints no exponent.
FloatStr(ip, fp) ==
  LET f == StripTrailingZeros(fp)
  IN  StripLeadingZeros(ip) \o "." \o (IF f = "" THEN "0" ELSE f)

\* n.is_integer()
IsInteger(ip, fp) == StripTrailingZeros(fp) = ""

(* ------------------------- the number pattern -------------------------- *)

\* The first position at or after i that holds no digit.
RECURSIVE DigitsEnd(_, _)
DigitsEnd(t, i) ==
  IF i <= Len(t) /\ IsDigit(Char(t, i)) THEN DigitsEnd(t, i + 1) ELSE i

\* The first position at or after i that holds no whitespace (\s*).
RECURSIVE SpacesEnd(_, _)
SpacesEnd(t, i) ==
  IF i <= Len(t) /\ IsSpace(Char(t, i)) THEN SpacesEnd(t, i + 1) ELSE i

\* _NUM = (\d+(?:\.\d+)?) matched at position i: the digits, the fraction's
\* digits and the position after the match; end = 0 when it does not match.
\* The greedy match is the only one that matters: whatever follows _NUM in
\* the three patterns starts with whitespace, a letter or the end, so giving
\* back a digit or the fraction never lets a failed match succeed.
NoNum == [end |-> 0, ip |-> "", fp |-> ""]

\* (?:\.\d+)? at position j, behind the digits t[i..j-1]; k is the position
\* behind the digits that follow the point.
NumFraction(t, i, j, k) ==
  IF j + 1 <= Len(t) /\ Char(t, j) = "." /\ k > j + 1
  THEN [end |-> k, ip |-> SubSeq(t, i, j - 1), fp |-> SubSeq(t, j + 1, k - 1)]
  ELSE [end |-> j, ip |-> SubSeq(t, i, j - 1), fp |-> ""]

NumDigits(t, i, j) == NumFraction(t, i, j, DigitsEnd(t, j + 1))

MatchNum(t, i) ==
  IF i > Len(t) \/ ~IsDigit(Char(t, i)) THEN NoNum ELSE NumDigits(t, i, DigitsEnd(t, i))

NoUnit == [end |-> 0, u |-> ""]

\* (g|kg|ml|l)\b at position i: the unit and the position after it; end = 0
\* when no alternative matches there with a word boundary behind it.
Boundary(t, j) == j > Len(t) \/ ~IsWord(Char(t, j))
UnitOf(t, i, one, two) ==
  IF one = "g" /\ Boundary(t, i + 1) THEN [end |-> i + 1, u |-> "g"]
  ELSE IF two = "kg" /\ Boundary(t, i + 2) THEN [end |-> i + 2, u |-> "kg"]
  ELSE IF two = "ml" /\ Boundary(t, i + 2) THEN [end |-> i + 2, u |-> "ml"]
  ELSE IF one = "l" /\ Boundary(t, i + 1) THEN [end |-> i + 1, u |-> "l"]
  ELSE NoUnit

MatchUnit(t, i) ==
  UnitOf(t, i, IF i <= Len(t) THEN Char(t, i) ELSE "",
               IF i + 1 <= Len(t) THEN SubSeq(t, i, i + 1) ELSE "")

\* \s*(g|kg|ml|l)\b behind a number that ended at position e (0: no number).
UnitBehind(t, e) == IF e = 0 THEN NoUnit ELSE MatchUnit(t, SpacesEnd(t, e))

NoMatch == [ok |-> FALSE]

\* SINGLE_RE anchored at position i: the number, then the unit.
SingleUnit(v, m) == IF m.end = 0 THEN NoMatch ELSE [ok |-> TRUE, g1 |-> v, u |-> m.u]
SingleNum(t, v) == SingleUnit(v, UnitBehind(t, v.end))
SingleAt(t, i) == SingleNum(t, MatchNum(t, i))

\* PACK_RE anchored at position i: the count, the x, the quantity, the unit.
PackUnit(n, each, m) ==
  IF m.end = 0 THEN NoMatch ELSE [ok |-> TRUE, g1 |-> n, g2 |-> each, u |-> m.u]
PackEach(t, n, each) == PackUnit(n, each, UnitBehind(t, each.end))
PackTimes(t, n, x) ==
  IF x <= Len(t) /\ Char(t, x) \in {"x", "×"}
  THEN PackEach(t, n, MatchNum(t, SpacesEnd(t, x + 1)))
  ELSE NoMatch
PackCount(t, n) == IF n.end = 0 THEN NoMatch ELSE PackTimes(t, n, SpacesEnd(t, n.end))
PackAt(t, i) == PackCount(t, MatchNum(t, i))

\* re.search: the match at the leftmost position where the pattern matches.
OrElse(m, other) == IF m.ok THEN m ELSE other

RECURSIVE SingleSearch(_, _)
SingleSearch(t, i) ==
  IF i > Len(t) THEN NoMatch ELSE OrElse(SingleAt(t, i), SingleSearch(t, i + 1))

RECURSIVE PackSearch(_, _)
PackSearch(t, i) ==
  IF i > Len(t) THEN NoMatch ELSE OrElse(PackAt(t, i), PackSearch(t, i + 1))

NumValue(m) == Some(FloatOf(m.ip, m.fp))

\* re.search(r"(\d+(?:\.\d+)?)", t): the float of the leftmost number, or None.
RECURSIVE NumSearch(_, _)
NumSearch(t, i) ==
  IF i > Len(t) THEN None
  ELSE IF IsDigit(Char(t, i)) THEN NumValue(MatchNum(t, i))
  ELSE NumSearch(t, i + 1)

(* ------------------------------ helpers -------------------------------- *)

Overlap(A, B) == IF A # {} THEN Rat(Cardinality(A \cap B), Cardinality(A)) ELSE <<0, 1>>
sim_words(a, b) == Overlap(Range(tokens(a)), Range(tokens(b)))

EPS == <<1, 1000000>>

Scalar(u) == IF u \in {"kg", "l"} THEN <<1, 1>> ELSE <<1, 1000>>
UnitOut(u) == IF u \in {"ml", "l"} THEN "L" ELSE "kg"

\* The pack branch of parse_size: n = group 1, each = group 2, u = group 3.
PackSize(n, each, u) ==
  [qty |-> RatMul(RatMul(FloatOf(n.ip, n.fp), FloatOf(each.ip, each.fp)), Scalar(u)),
   unit_type |-> UnitOut(u),
   display |-> (IF IsInteger(n.ip, n.fp) THEN StripLeadingZeros(n.ip)
                ELSE FloatStr(n.ip, n.fp))
               \o " x " \o FloatStr(each.ip, each.fp) \o " " \o u]

\* The single branch of parse_size: v = group 1, u = group 2.
SingleSize(v, u) ==
  [qty |-> RatMul(FloatOf(v.ip, v.fp), Scalar(u)),
   unit_type |-> UnitOut(u),
   display |-> FloatStr(v.ip, v.fp) \o " " \o u]

EachSize == [qty |-> <<1, 1>>, unit_type |-> "each", display |-> "each"]

\* The two grammars looked at in the other order.
SizeOfSingleFirst(pm, sm) ==
  IF sm.ok THEN SingleSize(sm.g1, sm.u)
  ELSE IF pm.ok THEN PackSize(pm.g1, pm.g2, pm.u)
  ELSE EachSize

\* parse_size from the two searches on: the pack match is looked at first.
SizeOf(pm, sm) ==
  IF pm.ok THEN PackSize(pm.g1, pm.g2, pm.u)
  ELSE IF sm.ok THEN SingleSize(sm.g1, sm.u)
  ELSE EachSize

SizeIn(t) == SizeOf(PackSearch(t, 1), SingleSearch(t, 1))

parse_size(text) == SizeIn(normalize(lower[text]))

\* A price per unit without the floor under the quantity.
ppu_unguarded(price, qty, unit_type) ==
  IF unit_type = "each" THEN price ELSE RatDiv(price, qty)

ppu(price, qty, unit_type) ==
  IF unit_type = "each" THEN price ELSE RatDiv(price, RatMax(qty, EPS))

\* A sort key that forgets the minus sign: the least similar listing first.
SortKeyAscending(ingredient, h) == <<sim_words(ingredient, h.name), h.ppu>>

\* The sort key of pick_best: (-sim_words(ingredient, name), ppu).
SortKey(ingredient, h) == <<RatNeg(sim_words(ingredient, h.name)), h.ppu>>
\* Python's tuple order on two keys.
KeyLt(k1, k2) == RatLt(k1[1], k2[1]) \/ (k1[1] = k2[1] /\ RatLt(k1[2], k2[2]))

\* sorted(): a stable sort, as an insertion that puts each element behind
\* every element whose key is not greater.
RECURSIVE InsertSorted(_, _, _)
InsertSorted(ingredient, h, done) ==
  IF done = <<>> THEN <<h>>
  ELSE IF KeyLt(SortKey(ingredient, h), SortKey(ingredient, Head(done)))
       THEN <<h>> \o done
       ELSE <<Head(done)>> \o InsertSorted(ingredient, h, Tail(done))

RECURSIVE sorted(_, _)
sorted(ingredient, hs) ==
  IF hs = <<>> THEN <<>>
  ELSE InsertSorted(ingredient, hs[Len(hs)],
                    sorted(ingredient, SubSeq(hs, 1, Len(hs) - 1)))

pick_best(ingredient, hs) ==
  IF hs = <<>> THEN None ELSE Some(sorted(ingredient, hs)[1])

(* ------------------------------ selectors ------------------------------ *)

CARD_SELECTORS ==
  << "div[class*=\"product-card_container__\"]",
     "div[class*=\"product-card_content__\"]",
     "div.product-card", "div.product-grid__item", "div.product", "div.product-tile",
     "[data-component=\"product-card\"]" >>

(* ------------------------------- the page ------------------------------ *)

\* A node of the rendered page, as the selectors see it:
\*   sel        the CARD_SELECTORS that match the node
\*   names      per NAME_SELECTORS entry, the text of its first match or None
\*   alt        the alt attribute of the first img[alt] inside, or None
\*   full, half the texts of the PRICE_FULL_SEL and PRICE_HALF_SEL matches
\*   fallbacks  per PRICE_FALLBACKS entry, its first match [text, data] or
\*              None; data is the data-price attribute or None
\*   sizes      per SIZE_SELECTORS entry, the text of its first match or None
\*   href       the href of the first a[href] inside, or None
\*   src, data_src  the attributes of the first img[src], img[data-src]
\* A selector list shorter than the source's stands for no match in the rest.
\* A page is the sequence of its nodes in document order.
NoCard ==
  [sel |-> {}, names |-> <<>>, alt |-> None, full |-> None, half |-> None,
   fallbacks |-> <<>>, sizes |-> <<>>, href |-> None, src |-> None, data_src |-> None]

\* sel_text(el, selectors), on the selectors' first matches.
RECURSIVE sel_text(_)
sel_text(found) ==
  IF found = <<>> THEN ""
  ELSE IF Head(found) # None /\ strip(Head(found)[1]) # ""
       THEN strip(Head(found)[1])
       ELSE sel_text(Tail(found))

\* float(s) for a signed decimal numeral; None stands for the ValueError that
\* the caller swallows.
FloatBody(negative, body, m) ==
  IF m.end = 0 \/ m.end # Len(body) + 1 THEN None
  ELSE IF negative THEN Some(RatNeg(FloatOf(m.ip, m.fp)))
  ELSE Some(FloatOf(m.ip, m.fp))
FloatSigned(negative, body) == FloatBody(negative, body, MatchNum(body, 1))
FloatText(t) ==
  IF Len(t) > 0 /\ Char(t, 1) \in {"+", "-"}
  THEN FloatSigned(Char(t, 1) = "-", SubSeq(t, 2, Len(t)))
  ELSE FloatSigned(FALSE, t)
ParseFloat(s) == FloatText(strip(s))

FirstSome(a, b) == IF a # None THEN a ELSE b

\* One PRICE_FALLBACKS node: the number in its text, else its data-price.
NodePrice(n) ==
  FirstSome(NumSearch(replace(strip(n.text), ",", "."), 1),
            IF n.data = None THEN None ELSE ParseFloat(n.data[1]))

\* The loop over PRICE_FALLBACKS in get_price_from_card.
RECURSIVE PriceFallback(_)
PriceFallback(found) ==
  IF found = <<>> THEN None
  ELSE IF Head(found) = None THEN PriceFallback(Tail(found))
  ELSE FirstSome(NodePrice(Head(found)[1]), PriceFallback(Tail(found)))

\* The split form: the texts of the full and the half node, joined and cleaned.
SplitPrice(ft, ht) == NumSearch(lstripR(replace(replace(ft \o ht, " ", ""), ",", ".")), 1)

get_price_from_card(card) ==
  FirstSome(IF card.full = None THEN None
            ELSE SplitPrice(strip(card.full[1]),
                            IF card.half # None THEN strip(card.half[1]) ELSE ""),
            PriceFallback(card.fallbacks))

ORIGIN == "https://www.checkers.co.za"

\* The name of a card: a name selector's text or, failing that, an image's alt.
NameOr(byname, alt) ==
  normalize(IF byname = "" /\ alt # None /\ alt[1] # "" THEN alt[1] ELSE byname)
CardName(card) == NameOr(sel_text(card.names), card.alt)

\* size_text = sel_text(card, SIZE_SELECTORS) or name
SizeText(bysize, name) == IF bysize # "" THEN bysize ELSE name

CardLink(href) ==
  IF href # None /\ href[1] # ""
  THEN (IF Char(href[1], 1) = "/" THEN Some(ORIGIN \o href[1]) ELSE href)
  ELSE None

\* img.get("src") or img.get("data-src") if img else None
CardImage(src, data_src) ==
  IF src = None /\ data_src = None THEN None
  ELSE IF src # None /\ src[1] # "" THEN src
  ELSE data_src

\* The dictionary appended to hits.
Hit(card, name, price, size) ==
  [name |-> name,
   price |-> price,
   size_display |-> size.display,
   ppu |-> ppu(price, size.qty, size.unit_type),
   unit_type |-> size.unit_type,
   url |-> CardLink(card.href),
   image |-> CardImage(card.src, card.data_src)]

\* A loop body that skips a card for a missing price only.
ListingOfAnyName(card, name, price_val) ==
  IF price_val = None THEN None
  ELSE Some(Hit(card, name, price_val[1], parse_size(SizeText(sel_text(card.sizes), name))))

\* The body of the loop over cards in search_checkers: the listing the card
\* yields, or None when the loop continues without appending.
ListingOf(card, name, price_val) ==
  IF name = "" \/ price_val = None THEN None
  ELSE Some(Hit(card, name, price_val[1], parse_size(SizeText(sel_text(card.sizes), name))))

Listing(card) == ListingOf(card, CardName(card), get_price_from_card(card))

\* soup.select(cs): the positions of the nodes cs matches, in document order.
RECURSIVE Select(_, _, _)
Select(page, cs, i) ==
  IF i > Len(page) THEN <<>>
  ELSE (IF cs \in page[i].sel THEN <<i>> ELSE <<>>) \o Select(page, cs, i + 1)

\* cards.extend(found) for every container selector, in list order.
RECURSIVE Collect(_, _)
Collect(page, k) ==
  IF k > Len(CARD_SELECTORS) THEN <<>>
  ELSE Select(page, CARD_SELECTORS[k], 1) \o Collect(page, k + 1)

\* No de-duplication: every match of every selector stays.
UniqKeepsAll(cards, seen) == cards

\* The de-duplication loop: a node is kept the first time its identity is seen.
RECURSIVE Uniq(_, _)
Uniq(cards, seen) ==
  IF cards = <<>> THEN <<>>
  ELSE IF Head(cards) \in seen THEN Uniq(Tail(cards), seen)
  ELSE <<Head(cards)>> \o Uniq(Tail(cards), seen \cup {Head(cards)})

CardCap == 24

\* cards[:24]
Capped(cards) == SubSeq(cards, 1, IF Len(cards) < CardCap THEN Len(cards) ELSE CardCap)

RECURSIVE Extract(_, _)
Extract(page, cards) ==
  IF cards = <<>> THEN <<>>
  ELSE Listing(page[Head(cards)]) \o Extract(page, Tail(cards))

\* search_checkers, from the rendered page on.
search_checkers(page) == Extract(page, Capped(Uniq(Collect(page, 1), {})))

(* ------------------------------ Firestore ------------------------------ *)

REGIONS == <<"ZA-WC-CT", "ZA-GP-JHB">>
STORE == "CHECKERS"

\* The document path prices/{region}/stores/{store}/items/{ingredient.lower()}.
DocKey(region, store, ingredient) == <<region, store, lower[ingredient]>>

\* The dictionary write_price hands to set(): best.get(k) is the listing's
\* value or None, and a None is written as a null field.
PriceDoc(region, store, ingredient, b) ==
  [ingredient |-> lower[ingredient],
   store |-> store,
   region |-> region,
   productName |-> b.name,
   size |-> Some(b.size_display),
   price |-> b.price,
   pricePerUnit |-> b.ppu,
   unitType |-> b.unit_type,
   updatedAt |-> "SERVER_TIMESTAMP",
   url |-> b.url,
   imageUrl |-> b.image]

\* DocumentReference.set(data, merge=True): every field of data replaces the
\* stored field, the stored fields data does not name stay.
MergeSet(store, key, data) ==
  (key :> (data @@ (IF key \in DOMAIN store THEN store[key] ELSE <<>>))) @@ store

write_price(store, region, st, ingredient, b) ==
  MergeSet(store, DocKey(region, st, ingredient), PriceDoc(region, st, ingredient, b))

(* ------------------------------- the run ------------------------------- *)

SEARCH_URL == "https://www.checkers.co.za/search/all?q="

\* SEARCH_URL.format(ingredient.replace(" ", "+"))
SearchUrl(q) == SEARCH_URL \o replace(q, " ", "+")

\* re.sub(r"[^\w]+", "_", s): every run of non-word characters becomes "_".
RECURSIVE Underscored(_, _)
Underscored(s, inrun) ==
  IF Len(s) = 0 THEN ""
  ELSE IF IsWord(Char(s, 1)) THEN Char(s, 1) \o Underscored(SubSeq(s, 2, Len(s)), FALSE)
  ELSE (IF inrun THEN "" ELSE "_") \o Underscored(SubSeq(s, 2, Len(s)), TRUE)

DebugKeyLen == 40

\* re.sub(r"[^\w]+", "_", ingredient.lower())[:40]
DebugKey(q) ==
  LET k == Underscored(lower[q], FALSE)
  IN  SubSeq(k, 1, IF Len(k) < DebugKeyLen THEN Len(k) ELSE DebugKeyLen)

\* found_any in get_rendered_html.
FoundAny(page) == \E k \in DOMAIN CARD_SELECTORS : Select(page, CARD_SELECTORS[k], 1) # <<>>

\* The configured ingredient list (INGREDIENTS_JSON).
INGREDIENTS == <<"beef mince", "Milk", "milk">>

\* The cards of the pages the storefront answers with during a run.
PorkCard ==
  [NoCard EXCEPT !.sel = {CARD_SELECTORS[1]},
                 !.names = <<Some("Pork Mince 1 kg")>>,
                 !.full = Some("R50"), !.half = Some(".00")]
BeefCard ==
  [NoCard EXCEPT !.sel = {CARD_SELECTORS[1]},
                 !.names = <<Some("Beef Mince 1 kg")>>,
                 !.full = Some("R119"), !.half = Some(".99"),
                 !.href = Some("/p/beef-mince"), !.src = Some("beef.png")]
MilkCard ==
  [NoCard EXCEPT !.sel = {CARD_SELECTORS[3], CARD_SELECTORS[5]},
                 !.names = <<None, Some("Full Cream Milk")>>,
                 !.fallbacks = <<Some([text |-> "R 22,99", data |-> None])>>,
                 !.sizes = <<Some("1 L")>>,
                 !.href = Some("/p/milk"), !.data_src = Some("milk.png")]
LongLifeCard ==
  [NoCard EXCEPT !.sel = {CARD_SELECTORS[7]},
                 !.alt = Some("Long Life Milk 2 L"),
                 !.fallbacks = <<None, Some([text |-> "", data |-> Some("30")])>>]
NamelessCard ==
  [NoCard EXCEPT !.sel = {CARD_SELECTORS[1]},
                 !.names = <<Some("  ")>>,
                 !.full = Some("R10")]

RunPages ==
  { <<>>,
    <<PorkCard, BeefCard>>,
    <<MilkCard>>,
    <<LongLifeCard>>,
    <<NamelessCard>> }

\* broad = ing.split()[-1]
Broad(q) == split(q)[Len(split(q))]

\* The queries of a run: the ingredients and the broadened ones.
Queries ==
  {INGREDIENTS[k] : k \in DOMAIN INGREDIENTS}
    \cup {Broad(INGREDIENTS[k]) : k \in {j \in DOMAIN INGREDIENTS : split(INGREDIENTS[j]) # <<>>}}

\* What the helpers return for the queries and pages of a run, evaluated once
\* for each: the debug key of a query, found_any and the listings of a page,
\* and the listing picked for a query from the listings of a page.
DebugKeys == [q \in Queries |-> DebugKey(q)]
Rendered == [page \in RunPages |-> [found_any |-> FoundAny(page), hits |-> search_checkers(page)]]
Picks == [q \in Queries, h \in {Rendered[page].hits : page \in RunPages} |-> pick_best(q, h)]

VARIABLES
  pc,       \* where run() stands: "search", "retry", "pick", "write", "sleep", "done"
  idx,      \* the position in INGREDIENTS of the ingredient in hand
  hits,     \* the listings of the last search_checkers call
  best,     \* the result of pick_best: None or a listing
  reg,      \* the position in REGIONS of the next region to write, 0 before the loop
  fetched,  \* the URLs requested for the ingredient in hand, in order
  html,     \* the page the last request rendered
  db,       \* the Firestore documents, by document path
  out,      \* the lines printed
  debug,    \* the debug keys dumped to debug/
  call,     \* a helper called on its own: its name (fn) and its arguments
  ret       \* what that helper returned: None before the call, then Some(value)

vars == <<pc, idx, hits, best, reg, fetched, html, db, out, debug, call, ret>>

ing == INGREDIENTS[idx]

RunInit ==
  /\ pc = "search"
  /\ idx = 1
  /\ hits = <<>>
  /\ best = None
  /\ reg = 0
  /\ fetched = <<>>
  /\ html = <<>>
  /\ db = <<>>
  /\ out = <<>>
  /\ debug = {}

NoCall == [fn |-> "none"]

Init == RunInit /\ call = NoCall /\ ret = None

\* One search_checkers(p, q) call that returns, the storefront answering with page.
Returns(q, page) ==
  /\ fetched' = Append(fetched, SearchUrl(q))
  /\ html' = page
  /\ debug' = IF Rendered[page].found_any THEN debug ELSE debug \cup {DebugKeys[q]}
  /\ hits' = Rendered[page].hits

\* if not hits and len(ing.split()) > 1: the retry, else the match selector.
AfterSearch(found) == IF found = <<>> /\ Len(split(ing)) > 1 THEN "retry" ELSE "pick"

\* hits = await search_checkers(p, ing)
Search ==
  /\ pc = "search"
  /\ \E page \in RunPages :
       /\ Returns(ing, page)
       /\ pc' = AfterSearch(Rendered[page].hits)
  /\ UNCHANGED <<idx, best, reg, db, out, call, ret>>

\* An exception that leaves run(): nothing is reported, the loop is over.
SearchRaisesAborts ==
  /\ pc = "search"
  /\ fetched' = Append(fetched, SearchUrl(ing))
  /\ pc' = "done"
  /\ UNCHANGED <<idx, hits, best, reg, html, db, out, debug, call, ret>>

\* The first search raises (a navigation timeout): the except clause reports it.
SearchRaises ==
  /\ pc = "search"
  /\ fetched' = Append(fetched, SearchUrl(ing))
  /\ out' = Append(out, <<"ERROR", ing>>)
  /\ pc' = "sleep"
  /\ UNCHANGED <<idx, hits, best, reg, html, db, debug, call, ret>>

\* broad = ing.split()[-1]; hits = await search_checkers(p, broad)
Retry ==
  /\ pc = "retry"
  /\ out' = Append(out, <<"INFO", ing, Broad(ing)>>)
  /\ \E page \in RunPages : Returns(Broad(ing), page)
  /\ pc' = "pick"
  /\ UNCHANGED <<idx, best, reg, db, call, ret>>

RetryRaises ==
  /\ pc = "retry"
  /\ out' = out \o << <<"INFO", ing, Broad(ing)>>, <<"ERROR", ing>> >>
  /\ fetched' = Append(fetched, SearchUrl(Broad(ing)))
  /\ pc' = "sleep"
  /\ UNCHANGED <<idx, hits, best, reg, html, db, debug, call, ret>>

\* The step behind pick_best: the miss report when there is no listing, else
\* the loop over REGIONS.
Picked(b) ==
  /\ pc = "pick"
  /\ best' = b
  /\ IF b = None
     THEN /\ out' = Append(out, <<"MISS", ing>>)
          /\ pc' = "sleep"
          /\ reg' = reg
     ELSE /\ out' = out
          /\ pc' = "write"
          /\ reg' = 1
  /\ UNCHANGED <<idx, hits, fetched, html, db, debug, call, ret>>

\* The match selector run with the broadened word instead of the ingredient.
PickBroad == Picked(Picks[Broad(ing), hits])

\* best = pick_best(ing, hits)
Pick == Picked(Picks[ing, hits])

\* write_price(db, region, STORE, ing, best) for the next region.
Write ==
  /\ pc = "write"
  /\ reg <= Len(REGIONS)
  /\ db' = write_price(db, REGIONS[reg], STORE, ing, best[1])
  /\ reg' = reg + 1
  /\ UNCHANGED <<pc, idx, hits, best, fetched, html, out, debug, call, ret>>

\* The write raises (the store is unreachable): the except clause reports it.
WriteRaises ==
  /\ pc = "write"
  /\ reg <= Len(REGIONS)
  /\ out' = Append(out, <<"ERROR", ing>>)
  /\ pc' = "sleep"
  /\ UNCHANGED <<idx, hits, best, reg, fetched, html, db, debug, call, ret>>

\* The [OK] line behind the loop over REGIONS.
ReportOk ==
  /\ pc = "write"
  /\ reg > Len(REGIONS)
  /\ out' = Append(out, <<"OK", ing, best[1].name>>)
  /\ pc' = "sleep"
  /\ UNCHANGED <<idx, hits, best, reg, fetched, html, db, debug, call, ret>>

\* await asyncio.sleep(...) and the step to the next ingredient; the locals of
\* the iteration are dead from here on and start over.
Sleep ==
  /\ pc = "sleep"
  /\ idx' = idx + 1
  /\ pc' = IF idx + 1 > Len(INGREDIENTS) THEN "done" ELSE "search"
  /\ hits' = <<>>
  /\ best' = None
  /\ reg' = 0
  /\ fetched' = <<>>
  /\ html' = <<>>
  /\ UNCHANGED <<db, out, debug, call, ret>>

Next ==
  \/ Search
  \/ SearchRaises
  \/ Retry
  \/ RetryRaises
  \/ Pick
  \/ Write
  \/ WriteRaises
  \/ ReportOk
  \/ Sleep

Spec == Init /\ [][Next]_vars

\* run() is sequential code whose awaits all end (a navigation times out
\* after TIMEOUT_NAV_MS): a step that can be taken is taken.
FairSpec == Spec /\ WF_vars(Next)

(* ------------------------ the helpers on their own --------------------- *)

MaxHits == 3
MaxNodes == 2

\* The sequences over S of length at most n.
RECURSIVE SeqsUpTo(_, _)
SeqsUpTo(S, n) ==
  IF n = 0 THEN {<<>>}
  ELSE SeqsUpTo(S, n - 1) \cup {Append(q, x) : q \in SeqsUpTo(S, n - 1), x \in S}

\* Size texts, put together from their parts: a count and a quantity as
\* written and their values, a unit as written with its scalar and kind.
SizeNums ==
  { [txt |-> "6", val |-> <<6, 1>>], [txt |-> "125", val |-> <<125, 1>>],
    [txt |-> "1.5", val |-> <<3, 2>>], [txt |-> "0.25", val |-> <<1, 4>>],
    [txt |-> "0", val |-> <<0, 1>>] }
SizeUnits ==
  { [txt |-> "g", scalar |-> <<1, 1000>>, kind |-> "kg"],
    [txt |-> "G", scalar |-> <<1, 1000>>, kind |-> "kg"],
    [txt |-> "kg", scalar |-> <<1, 1>>, kind |-> "kg"],
    [txt |-> "Kg", scalar |-> <<1, 1>>, kind |-> "kg"],
    [txt |-> "ml", scalar |-> <<1, 1000>>, kind |-> "L"],
    [txt |-> "ML", scalar |-> <<1, 1000>>, kind |-> "L"],
    [txt |-> "l", scalar |-> <<1, 1>>, kind |-> "L"],
    [txt |-> "L", scalar |-> <<1, 1>>, kind |-> "L"] }
Gaps == {"", "  "}
\* The sign between count and quantity, by name: "times" is the
\* multiplication sign U+00D7, written out only in the text handed over.
Times == {"x", "X", "times"}
TimesSign(x) == IF x = "times" THEN "×" ELSE x
PackPrefixes == {"", "Yoghurt 500 g "}
SinglePrefixes == {"", "Milk ", "x "}
Suffixes == {"", " pack 750 ml"}
PlainTexts == {"", "banana", "Avocado", "12", "6 x 12", "kg", "x"}

\* The text of a call of parse_size, put together from its parts.
PackText(c) ==
  c.pre \o c.n.txt \o c.gap \o TimesSign(c.x) \o c.gap \o c.q.txt \o c.gap \o c.unit.txt \o c.post
SingleText(c) == c.pre \o c.q.txt \o c.gap \o c.unit.txt \o c.post
SizeArg(c) ==
  IF c.form = "pack" THEN PackText(c)
  ELSE IF c.form = "single" THEN SingleText(c)
  ELSE c.text

SizeCalls ==
  { [fn |-> "parse_size", form |-> "pack", n |-> n, q |-> q, unit |-> u,
     pre |-> p, gap |-> g, x |-> x, post |-> e] :
       p \in PackPrefixes, n \in SizeNums, g \in Gaps, x \in Times, q \in SizeNums,
       u \in SizeUnits, e \in Suffixes }
  \cup
  { [fn |-> "parse_size", form |-> "single", q |-> q, unit |-> u,
     pre |-> p, gap |-> g, post |-> e] :
       p \in SinglePrefixes, q \in SizeNums, g \in Gaps, u \in SizeUnits, e \in Suffixes }
  \cup
  { [fn |-> "parse_size", form |-> "plain", text |-> t] : t \in PlainTexts }

PpuPrices == {<<0, 1>>, <<1, 100>>, <<5, 1>>, <<6499, 100>>}
PpuQtys == {<<0, 1>>, <<1, 10000000>>, EPS, <<1, 500000>>, <<1, 2>>, <<1, 1>>, <<3, 2>>}
PpuCalls ==
  { [fn |-> "ppu", price |-> p, qty |-> q, unit_type |-> u] :
      p \in PpuPrices, q \in PpuQtys, u \in {"kg", "L", "each"} }

HitPool ==
  { [name |-> "Beef Mince 500 g", ppu |-> <<6499, 50>>],
    [name |-> "Beef Mince 1 kg", ppu |-> <<11999, 100>>],
    [name |-> "Lean Mince (Beef) 1 kg", ppu |-> <<11999, 100>>],
    [name |-> "Pork Mince 1 kg", ppu |-> <<50, 1>>],
    [name |-> "Full Cream Milk 1 L", ppu |-> <<2299, 100>>] }
PickCalls ==
  { [fn |-> "pick_best", ingredient |-> i, hits |-> h] :
      i \in {"beef mince", "Milk", ""}, h \in SeqsUpTo(HitPool, MaxHits) }

PriceTexts ==
  {"R84.99", "R 84,99", "84^99", "", "no digits here", "R0.00", "0", " r 12 ", "R84"}
PriceData == {None, Some("22.99"), Some("n/a"), Some("-5")}
PriceCalls ==
  { [fn |-> "get_price_from_card", card |-> [NoCard EXCEPT !.full = Some(t), !.half = h]] :
      t \in PriceTexts, h \in {None, Some(".99")} }
  \cup
  { [fn |-> "get_price_from_card",
     card |-> [NoCard EXCEPT !.fallbacks = <<Some([text |-> t, data |-> d])>>]] :
      t \in PriceTexts, d \in PriceData }
  \cup
  { [fn |-> "get_price_from_card",
     card |-> [NoCard EXCEPT !.full = Some(t),
                             !.fallbacks = <<None, Some([text |-> u, data |-> None])>>]] :
      t \in {"", "R"}, u \in PriceTexts }

PricelessCard ==
  [NoCard EXCEPT !.sel = {CARD_SELECTORS[5]},
                 !.names = <<Some("Sold Out Butter 500 g")>>,
                 !.full = Some("R"),
                 !.fallbacks = <<Some([text |-> "N/A", data |-> Some("n/a")])>>]
PlainNode ==
  [NoCard EXCEPT !.names = <<Some("Banner 2 kg")>>, !.full = Some("R1")]
FreeCard ==
  [NoCard EXCEPT !.sel = {CARD_SELECTORS[2]},
                 !.names = <<Some("Free Sample")>>,
                 !.full = Some("R0.00")]
ZeroSizeCard ==
  [NoCard EXCEPT !.sel = {CARD_SELECTORS[4]},
                 !.names = <<Some("Sweetener")>>,
                 !.fallbacks = <<Some([text |-> "R5", data |-> None])>>,
                 !.sizes = <<None, Some("0 g")>>]
CardPool ==
  { PorkCard, BeefCard, MilkCard, LongLifeCard, NamelessCard,
    PricelessCard, PlainNode, FreeCard, ZeroSizeCard }

\* A page with more cards than the cap: its second and its last node match
\* the first container selector, the others match later ones, most of them two.
BigPage ==
  [i \in 1..(CardCap + 2) |->
     IF i = CardCap + 2 THEN PorkCard
     ELSE IF i = 2 THEN NamelessCard
     ELSE IF i = CardCap + 1 THEN LongLifeCard
     ELSE MilkCard]

SearchCalls ==
  { [fn |-> "search_checkers", page |-> p] : p \in SeqsUpTo(CardPool, MaxNodes) \cup {BigPage} }

Calls == SizeCalls \cup PpuCalls \cup PickCalls \cup PriceCalls \cup SearchCalls

FnInit ==
  /\ pc = "idle"
  /\ idx = 1
  /\ hits = <<>>
  /\ best = None
  /\ reg = 0
  /\ fetched = <<>>
  /\ html = <<>>
  /\ db = <<>>
  /\ out = <<>>
  /\ debug = {}
  /\ call \in Calls
  /\ ret = None

Called(fn) == call.fn = fn /\ ret = None

CallParseSize ==
  /\ Called("parse_size")
  /\ ret' = Some(parse_size(SizeArg(call)))
  /\ UNCHANGED <<pc, idx, hits, best, reg, fetched, html, db, out, debug, call>>

CallPpu ==
  /\ Called("ppu")
  /\ ret' = Some(ppu(call.price, call.qty, call.unit_type))
  /\ UNCHANGED <<pc, idx, hits, best, reg, fetched, html, db, out, debug, call>>

CallPickBest ==
  /\ Called("pick_best")
  /\ ret' = Some(pick_best(call.ingredient, call.hits))
  /\ UNCHANGED <<pc, idx, hits, best, reg, fetched, html, db, out, debug, call>>

CallGetPrice ==
  /\ Called("get_price_from_card")
  /\ ret' = Some(get_price_from_card(call.card))
  /\ UNCHANGED <<pc, idx, hits, best, reg, fetched, html, db, out, debug, call>>

CallSearchCheckers ==
  /\ Called("search_checkers")
  /\ ret' = Some(search_checkers(call.page))
  /\ UNCHANGED <<pc, idx, hits, best, reg, fetched, html, db, out, debug, call>>

FnNext ==
  \/ CallParseSize
  \/ CallPpu
  \/ CallPickBest
  \/ CallGetPrice
  \/ CallSearchCheckers

FnSpec == FnInit /\ [][FnNext]_vars

(* ------------------------------- pick_best ----------------------------- *)

Returned(fn) == call.fn = fn /\ ret # None

\* Listing i of hs is a best one for the ingredient: no listing is more
\* similar, and none as similar is cheaper per unit.
IsBest(ingredient, hs, i) ==
  \A j \in DOMAIN hs :
    /\ RatLe(sim_words(ingredient, hs[j].name), sim_words(ingredient, hs[i].name))
    /\ sim_words(ingredient, hs[j].name) = sim_words(ingredient, hs[i].name)
         => RatLe(hs[i].ppu, hs[j].ppu)

\* C1: pick_best returns None exactly when hits is empty; otherwise it returns
\* the earliest element of hits among those of maximal similarity to the
\* ingredient and, at that similarity, minimal price per unit.
C1_PickBest ==
  Returned("pick_best") =>
    /\ ret[1] = None <=> call.hits = <<>>
    /\ ret[1] # None =>
         \E i \in DOMAIN call.hits :
           /\ ret[1][1] = call.hits[i]
           /\ IsBest(call.ingredient, call.hits, i)
           /\ \A j \in 1..(i - 1) : ~IsBest(call.ingredient, call.hits, j)

\* Two equally similar listings, the cheaper per kg behind the dearer one,
\* and a third that ties with the cheaper one behind it: the cheaper is picked.
C1_Witness ==
  /\ Returned("pick_best")
  /\ call.ingredient = "beef mince"
  /\ Len(call.hits) = 3
  /\ call.hits[1].name = "Beef Mince 500 g"
  /\ call.hits[2].name = "Beef Mince 1 kg"
  /\ call.hits[3].name = "Lean Mince (Beef) 1 kg"
  /\ ret[1] = Some(call.hits[2])

(* -------------------------- ppu and parse_size ------------------------- *)

\* C4: ppu returns the price unchanged for "each"; for kg and L it returns
\* price / max(qty, 1e-6), which is price / qty for qty above the floor, and
\* it is a number even for a quantity of 0; so every listing search_checkers
\* builds has a price per unit that is a number.
C4_Ppu ==
  /\ Returned("ppu") =>
       /\ IsFloat(ret[1])
       /\ call.unit_type = "each" => ret[1] = call.price
       /\ call.unit_type # "each" /\ RatLt(EPS, call.qty) =>
            RatMul(ret[1], call.qty) = call.price
       /\ call.unit_type # "each" /\ RatLe(call.qty, EPS) =>
            RatMul(ret[1], EPS) = call.price
  /\ Returned("search_checkers") =>
       \A k \in DOMAIN ret[1] : IsFloat(ret[1][k].ppu)

\* A mass of 0 priced per kg.
C4_Witness ==
  /\ Returned("ppu")
  /\ call.qty = <<0, 1>>
  /\ call.unit_type = "kg"
  /\ call.price = <<5, 1>>
  /\ ret[1] = <<5000000, 1>>

\* C5: a text holding "<n> x <q> <unit>" has quantity n * q * scalar(unit),
\* also when a "<q> <unit>" stands in front of it; a text holding only
\* "<q> <unit>" has quantity q * scalar(unit); the scalar is 0.001 for g and ml
\* and 1 for kg and l, the kind is kg for g and kg and L for ml and l, in
\* either case of the letters; any other text gives (1, "each", "each").
C5_ParseSize ==
  Returned("parse_size") =>
    /\ call.form = "pack" =>
         /\ ret[1].qty = RatMul(RatMul(call.n.val, call.q.val), call.unit.scalar)
         /\ ret[1].unit_type = call.unit.kind
    /\ call.form = "single" =>
         /\ ret[1].qty = RatMul(call.q.val, call.unit.scalar)
         /\ ret[1].unit_type = call.unit.kind
    /\ call.form = "plain" =>
         ret[1] = [qty |-> <<1, 1>>, unit_type |-> "each", display |-> "each"]

\* A pack behind a single size: 6 x 125 g is 0.75 kg, not the 500 g in front.
C5_Witness ==
  /\ Returned("parse_size")
  /\ SizeArg(call) = "Yoghurt 500 g 6  x  125  G pack 750 ml"
  /\ ret[1].qty = <<3, 4>>
  /\ ret[1].unit_type = "kg"

(* --------------------------- search_checkers --------------------------- *)

HasText(t) == \E i \in 1..Len(t) : ~IsSpace(Char(t, i))
HasDigit(t) == \E i \in 1..Len(t) : IsDigit(Char(t, i))

\* The card has a name: a name selector with text or an image alt with text.
HasName(card) ==
  \/ \E i \in DOMAIN card.names : card.names[i] # None /\ HasText(card.names[i][1])
  \/ card.alt # None /\ HasText(card.alt[1])

\* The card has a price: a digit in the split price, or a fallback node with a
\* digit in its text or a numeral in its data-price.
HasPrice(card) ==
  \/ /\ card.full # None
     /\ HasDigit(card.full[1]) \/ (card.half # None /\ HasDigit(card.half[1]))
  \/ \E i \in DOMAIN card.fallbacks :
       /\ card.fallbacks[i] # None
       /\ \/ HasDigit(card.fallbacks[i][1].text)
          \/ /\ card.fallbacks[i][1].data # None
             /\ ParseFloat(card.fallbacks[i][1].data[1]) # None

\* The positions of the page's nodes that some container selector matches.
Containers(page) == {i \in DOMAIN page : page[i].sel \cap Range(CARD_SELECTORS) # {}}

\* C2: search_checkers appends a listing for a card exactly when the card has
\* a name and a price; every listing returned has a non-empty name and a
\* number as price, and a page no container selector matches gives none.
C2_Extract ==
  Returned("search_checkers") =>
    /\ \A k \in DOMAIN ret[1] : ret[1][k].name # "" /\ IsFloat(ret[1][k].price)
    /\ Len(ret[1]) =
         Cardinality({k \in DOMAIN Capped(Uniq(Collect(call.page, 1), {})) :
                        LET card == call.page[Capped(Uniq(Collect(call.page, 1), {}))[k]]
                        IN  HasName(card) /\ HasPrice(card)})
    /\ Containers(call.page) = {} => ret[1] = <<>>

\* A card without a name in front of a card without a price and a good one.
C2_Witness ==
  /\ Returned("search_checkers")
  /\ call.page = <<NamelessCard, LongLifeCard>>
  /\ Len(ret[1]) = 1
  /\ ret[1][1].name = "Long Life Milk 2 L"

\* C3: every listing search_checkers builds has a price above 0.
C3_PositivePrice ==
  Returned("search_checkers") =>
    \A k \in DOMAIN ret[1] : RatLt(<<0, 1>>, ret[1][k].price)

\* The card carries t as its one price text: in the full node, without a
\* half node, or in a fallback node without a data-price.
OnlyPriceText(card, t) ==
  \/ card.full = Some(t) /\ card.half = None /\ card.fallbacks = <<>>
  \/ card.full = None /\ card.fallbacks = <<Some([text |-> t, data |-> None])>>

\* C6: the price texts "R84.99", "R 84,99" and "84^99" and the split pair
\* "R84" + ".99" all parse to 84.99; the empty text and a text without digits
\* parse to None.
C6_PriceTexts ==
  Returned("get_price_from_card") =>
    /\ \A t \in {"R84.99", "R 84,99", "84^99"} :
         OnlyPriceText(call.card, t) => ret[1] = Some(<<8499, 100>>)
    /\ call.card.full = Some("R84") /\ call.card.half = Some(".99")
         => ret[1] = Some(<<8499, 100>>)
    /\ \A t \in {"", "no digits here"} : OnlyPriceText(call.card, t) => ret[1] = None

\* The place of a container node in first-seen order: the first selector of
\* the list that matches it, then its place in the document.
FirstSel(page, i) ==
  CHOOSE k \in DOMAIN CARD_SELECTORS :
    /\ CARD_SELECTORS[k] \in page[i].sel
    /\ \A m \in 1..(k - 1) : CARD_SELECTORS[m] \notin page[i].sel
SeenBefore(page, i, j) ==
  \/ FirstSel(page, i) < FirstSel(page, j)
  \/ FirstSel(page, i) = FirstSel(page, j) /\ i < j
\* The candidates: the container nodes with fewer than CardCap others in front.
Candidates(page) ==
  {i \in Containers(page) :
     Cardinality({j \in Containers(page) : SeenBefore(page, j, i)}) < CardCap}
\* The candidates that yield a listing.
Kept(page) == {i \in Candidates(page) : Listing(page[i]) # None}

\* C10: the candidates are the container nodes, each once, in first-seen
\* order, cut to the cap; the listings returned are those of the candidates
\* that yield one, in that order, so they are never more than the cap.
C10_Candidates ==
  Returned("search_checkers") =>
    /\ Len(ret[1]) = Cardinality(Kept(call.page))
    /\ Len(ret[1]) <= CardCap
    /\ \A i \in Kept(call.page) :
         ret[1][1 + Cardinality({j \in Kept(call.page) : SeenBefore(call.page, j, i)})]
           = Listing(call.page[i])[1]

\* The page with more cards than the cap: the nodes of the first selector
\* lead, the nameless one of them is left out, the two nodes past the cap
\* are cut.
C10_Witness ==
  /\ Returned("search_checkers")
  /\ call.page = BigPage
  /\ Cardinality(Containers(call.page)) = CardCap + 2
  /\ Len(ret[1]) = CardCap - 1
  /\ ret[1][1].name = "Pork Mince 1 kg"
  /\ \A k \in 2..Len(ret[1]) : ret[1][k].name = "Full Cream Milk"

(* -------------------------------- run ---------------------------------- *)

\* The document path of the ingredient in hand for a region.
KeyOf(region) == <<region, STORE, lower[ing]>>

\* What one step may do to the stored documents.
C7_Step ==
  db' # db =>
    /\ DOMAIN db' = DOMAIN db \cup {KeyOf(REGIONS[reg])}
    /\ \A k \in DOMAIN db : k # KeyOf(REGIONS[reg]) => db'[k] = db[k]
    /\ db'[KeyOf(REGIONS[reg])].productName = best[1].name
    /\ db'[KeyOf(REGIONS[reg])].price = best[1].price
    /\ db'[KeyOf(REGIONS[reg])].pricePerUnit = best[1].ppu
    /\ db'[KeyOf(REGIONS[reg])].unitType = best[1].unit_type
    /\ db'[KeyOf(REGIONS[reg])].size = Some(best[1].size_display)
    /\ best[1].url # None => db'[KeyOf(REGIONS[reg])].url = best[1].url
    /\ best[1].image # None => db'[KeyOf(REGIONS[reg])].imageUrl = best[1].image
    /\ KeyOf(REGIONS[reg]) \in DOMAIN db =>
         /\ best[1].url = None =>
              db'[KeyOf(REGIONS[reg])].url = db[KeyOf(REGIONS[reg])].url
         /\ best[1].image = None =>
              db'[KeyOf(REGIONS[reg])].imageUrl = db[KeyOf(REGIONS[reg])].imageUrl

\* C7: a write changes only the document of its own (region, store,
\* lower-cased ingredient), every field the listing supplies replaces the
\* stored one, and a field the listing does not supply (url, image) leaves
\* the stored value of that field as it was.
C7_Upsert == [][C7_Step]_vars

\* The outcome lines printed so far: [OK], [MISS] and [ERROR], not [INFO].
IsOutcome(line) == line[1] # "INFO"
Outcomes == SelectSeq(out, IsOutcome)
Printed(tag) == Len(out') > Len(out) /\ out'[Len(out')][1] = tag

C8_Inv ==
  /\ Len(Outcomes) = (IF pc = "sleep" THEN idx ELSE idx - 1)
  /\ \A k \in DOMAIN Outcomes :
       Outcomes[k][1] \in {"OK", "MISS", "ERROR"} /\ Outcomes[k][2] = INGREDIENTS[k]
  /\ pc = "done" => Len(Outcomes) = Len(INGREDIENTS)

C8_Step ==
  /\ Printed("OK") =>
       \A r \in DOMAIN REGIONS :
         /\ KeyOf(REGIONS[r]) \in DOMAIN db'
         /\ db'[KeyOf(REGIONS[r])].productName = best[1].name
         /\ db'[KeyOf(REGIONS[r])].price = best[1].price
         /\ db'[KeyOf(REGIONS[r])].region = REGIONS[r]
  /\ Printed("MISS") => reg = 0 /\ db' = db

\* C8: every ingredient of the list gets, in list order, exactly one outcome:
\* the listing written for every region, a miss with nothing written, or an
\* error; an exception for one ingredient leaves the later ones their turn,
\* and the loop ends after the last ingredient.
C8_Run == []C8_Inv /\ [][C8_Step]_vars /\ <>(pc = "done")

\* An error for the first ingredient, then a miss, then a written listing.
C8_Witness ==
  /\ pc = "done"
  /\ Len(Outcomes) = 3
  /\ Outcomes[1][1] = "ERROR"
  /\ Outcomes[2][1] = "MISS"
  /\ Outcomes[3][1] = "OK"
  /\ \A r \in DOMAIN REGIONS : <<REGIONS[r], STORE, "milk">> \in DOMAIN db

\* More than one whitespace-separated word.
MultiWord(t) ==
  \E i, j, k \in 1..Len(t) :
    i < j /\ j < k /\ ~IsSpace(Char(t, i)) /\ IsSpace(Char(t, j)) /\ ~IsSpace(Char(t, k))

\* The last whitespace-separated word: the piece without whitespace that has
\* only whitespace behind it and whitespace or nothing in front.
LastWord(t) ==
  CHOOSE w \in {SubSeq(t, a, b) : a, b \in 1..Len(t)} :
    \E a, b \in 1..Len(t) :
      /\ a <= b
      /\ w = SubSeq(t, a, b)
      /\ \A i \in a..b : ~IsSpace(Char(t, i))
      /\ \A i \in (b + 1)..Len(t) : IsSpace(Char(t, i))
      /\ a = 1 \/ IsSpace(Char(t, a - 1))

C9_Inv ==
  pc # "done" =>
    /\ Len(fetched) <= 2
    /\ Len(fetched) >= 1 => fetched[1] = SearchUrl(ing)
    /\ Len(fetched) = 2 => MultiWord(ing) /\ fetched[2] = SearchUrl(LastWord(ing))
    /\ pc = "write" =>
         /\ best # None
         /\ \E i \in DOMAIN hits : best[1] = hits[i] /\ IsBest(ing, hits, i)

C9_Step ==
  /\ Len(fetched') = 2 /\ Len(fetched) = 1 => pc = "retry" /\ hits = <<>>
  /\ pc = "search" /\ ~MultiWord(ing) => pc' # "retry"
  /\ pc = "pick" /\ hits = <<>> => out' = Append(out, <<"MISS", ing>>) /\ pc' = "sleep"
  /\ \A k \in DOMAIN db' : (k \notin DOMAIN db \/ db'[k] # db[k]) => k[3] = lower[ing]

\* C9: extraction is called again at most once for an ingredient, only after
\* a first extraction without listings for an ingredient of several words,
\* with the ingredient's last word; the listing is then picked with, and
\* written under, the full ingredient; an ingredient of one word without
\* listings is a miss without a second call.
C9_Retry == []C9_Inv /\ [][C9_Step]_vars

\* After the retry with "mince" the dearer beef mince is picked, not the
\* cheaper pork mince in front of it.
C9_Witness ==
  /\ pc = "write"
  /\ ing = "beef mince"
  /\ Len(fetched) = 2
  /\ fetched[2] = "https://www.checkers.co.za/search/all?q=mince"
  /\ hits[1].name = "Pork Mince 1 kg"
  /\ best[1].name = "Beef Mince 1 kg"
  /\ reg = 2
  /\ <<"ZA-WC-CT", "CHECKERS", "beef mince">> \in DOMAIN db

====
